---------------------------- MODULE Spec2Model ----------------------------
(***************************************************************************)
(* Alumni event aggregator: the paginated source adapters, the schema      *)
(* normalizers, the timestamp coercion and the aggregation pipeline of     *)
(* multi_schools.py, the single-source variant scraper_api_paged.py and    *)
(* the calendar/browser collection of scraper.py.                          *)
(***************************************************************************)
EXTENDS Integers, Sequences, FiniteSets, TLC

(***************************************************************************)
(* Python values.  A value is a record tagged by its Python type; a str is *)
(* a sequence of tokens (characters or whole words), a dict a function     *)
(* whose DOMAIN is its key set.  An int n is kept as two limbs,            *)
(* n = hi * 10^6 + lo, because epoch milliseconds exceed 32 bits.          *)
(***************************************************************************)
PyNone == [t |-> "none"]
PyStr(s) == [t |-> "str", s |-> s]
PyBool(b) == [t |-> "bool", b |-> b]
PyInt(hi, lo) == [t |-> "int", hi |-> hi, lo |-> lo]
PyDict(d) == [t |-> "dict", d |-> d]
PyList(l) == [t |-> "list", l |-> l]
\* The text of a UTC instant (milliseconds since the epoch, in limbs) as
\* Timestamp.isoformat() renders it: a str, but never equal to a token str.
IsoStr(hi, lo) == [t |-> "str", iso |-> <<hi, lo>>]

EmptyStr == PyStr(<<>>)
IsStr(v) == v.t = "str"
IsDict(v) == v.t = "dict"
IsTokStr(v) == v.t = "str" /\ "s" \in DOMAIN v

\* bool(v), the truth value Python's `or`, `if` and `not` use.
Truthy(v) ==
    CASE v.t = "none" -> FALSE
      [] v.t = "bool" -> v.b
      [] v.t = "int" -> v.hi # 0 \/ v.lo # 0
      [] v.t = "str" -> IF "s" \in DOMAIN v THEN Len(v.s) > 0 ELSE TRUE
      [] v.t = "dict" -> DOMAIN v.d # {}
      [] v.t = "list" -> Len(v.l) > 0

\* a or b
PyOr(a, b) == IF Truthy(a) THEN a ELSE b

\* one limb of an int value
Limb == 1000 * 1000

Whitespace == {" "}

RECURSIVE LStrip(_)
LStrip(s) == IF s # <<>> /\ Head(s) \in Whitespace THEN LStrip(Tail(s)) ELSE s

RECURSIVE RStrip(_)
RStrip(s) ==
    IF s # <<>> /\ s[Len(s)] \in Whitespace
      THEN RStrip(SubSeq(s, 1, Len(s) - 1))
      ELSE s

\* str.strip() on the token sequence of a str
Strip(s) == RStrip(LStrip(s))

\* DictGet(v, k): v.get(k) on a dict value (None when the key is missing)
DictGet(v, k) == IF k \in DOMAIN v.d THEN v.d[k] ELSE PyNone

RECURSIVE SafeGetKeys(_, _, _)
SafeGetKeys(d, keys, default) ==
    IF keys = <<>> THEN default
    ELSE IF IsDict(d) /\ Head(keys) \in DOMAIN d.d
            /\ d.d[Head(keys)] # PyNone /\ d.d[Head(keys)] # EmptyStr
         THEN d.d[Head(keys)]
         ELSE SafeGetKeys(d, Tail(keys), default)

\* _safe_get(d, *keys, default=None): the first key present with a value that
\* is neither None nor "".
_safe_get(d, keys, default) == SafeGetKeys(d, keys, default)

RECURSIVE Join(_, _)
Join(sep, parts) ==
    IF parts = <<>> THEN <<>>
    ELSE IF Len(parts) = 1 THEN Head(parts)
    ELSE Head(parts) \o sep \o Join(sep, Tail(parts))

CommaSpace == <<",", " ">>

\* _concat_address(*parts): ", ".join of the stripped truthy parts. Its
\* callers pass token sequences that are already stripped.
_concat_address(parts) ==
    Join(CommaSpace, [k \in 1..Len(SelectSeq(parts, LAMBDA x : x # <<>>)) |->
                        Strip(SelectSeq(parts, LAMBDA x : x # <<>>)[k])])


(***************************************************************************)
(* Timestamp coercion, multi_schools.py to_iso.                            *)
(***************************************************************************)
Digits == {"0", "1", "2", "3", "4", "5", "6", "7", "8", "9"}

DigitVal(c) ==
    CASE c = "0" -> 0 [] c = "1" -> 1 [] c = "2" -> 2 [] c = "3" -> 3
      [] c = "4" -> 4 [] c = "5" -> 5 [] c = "6" -> 6 [] c = "7" -> 7
      [] c = "8" -> 8 [] c = "9" -> 9

\* str.isdigit(): non-empty and every character a digit
IsDigitStr(s) == s # <<>> /\ \A k \in 1..Len(s) : s[k] \in Digits

\* The high limb saturates here: every value at or above HiSat * 10^6 is far
\* beyond the datetime range, whatever digits follow.
HiSat == 10 * Limb

RECURSIVE ParseIntFrom(_, _, _)
ParseIntFrom(s, hi, lo) ==
    IF s = <<>> THEN <<hi, lo>>
    ELSE LET v == lo * 10 + DigitVal(Head(s))
             h == hi * 10 + (v \div Limb)
         IN ParseIntFrom(Tail(s), IF h > HiSat THEN HiSat ELSE h, v % Limb)

\* int(s) of a digit string, in limbs
ParseInt(s) == ParseIntFrom(s, 0, 0)

LimbGreater(a, b) == a[1] > b[1] \/ (a[1] = b[1] /\ a[2] > b[2])

\* 1e11, the seconds/milliseconds threshold
MsThreshold == <<100000, 0>>
\* pandas.Timestamp.max (2262-04-11T23:47:16.854) in seconds and milliseconds:
\* beyond it pd.to_datetime raises OutOfBoundsDatetime
MaxEpochSec == <<9223, 372036>>
MaxEpochMs == <<9223372, 36854>>

\* the unit test written as n >= 1e11
EpochToIsoInclusive(n) ==
    IF ~LimbGreater(MsThreshold, n)
      THEN IF LimbGreater(n, MaxEpochMs) THEN PyNone ELSE IsoStr(n[1], n[2])
      ELSE IF LimbGreater(n, MaxEpochSec) THEN PyNone
           ELSE IsoStr(n[1] * 1000 + (n[2] \div 1000), (n[2] % 1000) * 1000)

\* pd.to_datetime(n, unit=unit, utc=True).isoformat() inside try/except
EpochToIso(n) ==
    IF LimbGreater(n, MsThreshold)
      THEN IF LimbGreater(n, MaxEpochMs) THEN PyNone ELSE IsoStr(n[1], n[2])
      ELSE IF LimbGreater(n, MaxEpochSec) THEN PyNone
           ELSE IsoStr(n[1] * 1000 + (n[2] \div 1000), (n[2] % 1000) * 1000)

\* The date texts pd.to_datetime(s, utc=True) parses, with their instants.
IsoTexts == {<<"2024-05-01T10:00:00Z">>, <<"2024-05-01T12:00:00+02:00">>,
             <<"2023-11-14T22:13:20Z">>}

\* The texts pd.to_datetime reads as a missing value: it returns NaT for
\* them instead of raising, and NaT.isoformat() is the text "NaT".
NatTexts == {<<>>, <<"nan">>, <<"NaT">>}
NaTText == PyStr(<<"NaT">>)

ParseDateText(s) ==
    CASE s = <<"2024-05-01T10:00:00Z">> -> <<1714557, 600000>>
      [] s = <<"2024-05-01T12:00:00+02:00">> -> <<1714557, 600000>>
      [] s = <<"2023-11-14T22:13:20Z">> -> <<1700000, 0>>

to_iso(x) ==
    IF x = PyNone \/ x = EmptyStr THEN PyNone
    ELSE IF x.t = "int" THEN EpochToIso(<<x.hi, x.lo>>)
    ELSE IF IsTokStr(x)
      THEN LET s == Strip(x.s)
           IN IF IsDigitStr(s) THEN EpochToIso(ParseInt(s))
              ELSE IF s \in IsoTexts
                     THEN IsoStr(ParseDateText(s)[1], ParseDateText(s)[2])
              ELSE IF s \in NatTexts THEN NaTText
              ELSE PyNone
    ELSE IF x.t = "str" THEN x
    ELSE PyNone

(***************************************************************************)
(* Schema normalizers.  A normalizer returns an Event (a record of Python  *)
(* values) or raises; Raised stands for the exception leaving the call.    *)
(***************************************************************************)
Raised == [t |-> "raise"]

SansTitre == PyStr(<<"(Sans titre)">>)
EnLigne == <<"En", " ", "ligne">>

RECURSIVE DigitsOf(_)
DigitsOf(n) ==
    IF n < 10 THEN <<ToString(n)>> ELSE DigitsOf(n \div 10) \o <<ToString(n % 10)>>

RECURSIVE PadLeft(_, _)
PadLeft(s, w) == IF Len(s) >= w THEN s ELSE PadLeft(<<"0">> \o s, w)

\* str(v) of a str or an int; other types print as a single opaque token.
StrOf(v) ==
    IF IsTokStr(v) THEN v.s
    ELSE IF v.t = "int"
      THEN IF v.hi = 0 THEN DigitsOf(v.lo)
           ELSE DigitsOf(v.hi) \o PadLeft(DigitsOf(v.lo), 6)
    ELSE <<"<repr>">>

\* (v or "").strip(): raises AttributeError when v is truthy and no str.
StripOrRaises(v) == Truthy(v) /\ ~IsTokStr(v)
StripOr(v) == IF Truthy(v) THEN Strip(v.s) ELSE <<>>

\* (v or {}).get(...): raises AttributeError when v is truthy and no dict.
GetOrRaises(v) == Truthy(v) /\ ~IsDict(v)
GetOr(v, k) == IF Truthy(v) THEN DictGet(v, k) ELSE PyNone

AddressKeys == <<"venue", "address", "address_2", "zip", "city", "country_iso">>

\* addr = (ev.get("_embedded") or {}).get("address") or {}
HalAddr(ev) == GetOr(DictGet(ev, "_embedded"), "address")

HalAddrPart(ev, k) == StripOr(GetOr(HalAddr(ev), k))

HalDescription(ev) == _safe_get(ev, <<"description">>, EmptyStr)

HalRaises(ev) ==
    \/ ~IsDict(ev)
    \/ GetOrRaises(DictGet(ev, "_embedded"))
    \/ GetOrRaises(HalAddr(ev))
    \/ \E k \in 1..Len(AddressKeys) : StripOrRaises(GetOr(HalAddr(ev), AddressKeys[k]))
    \/ StripOrRaises(HalDescription(ev))

HalIsOnSite(ev) == Truthy(_safe_get(ev, <<"is_on_site">>, PyBool(FALSE)))
HalIsWebinar(ev) == Truthy(_safe_get(ev, <<"is_webinar">>, PyBool(FALSE)))

\* is_online without the webinar override
HalIsOnlineNoOverride(ev) == ~HalIsOnSite(ev)

\* is_online = (not is_on_site) or is_webinar
HalIsOnline(ev) == (~HalIsOnSite(ev)) \/ HalIsWebinar(ev)

HalLocation(ev) ==
    IF HalIsOnline(ev) THEN EnLigne
    ELSE _concat_address([k \in 1..Len(AddressKeys) |-> HalAddrPart(ev, AddressKeys[k])])

HalEid(ev) == StrOf(PyOr(_safe_get(ev, <<"id">>, EmptyStr), EmptyStr))

HalUrl(base, ev) ==
    _safe_get(ev, <<"web_url", "url">>,
              IF HalEid(ev) # <<>>
                THEN PyStr(base \o <<"/fr/calendar/index/index?id=">> \o HalEid(ev))
                ELSE PyNone)

normalize_api_v2_hal(school, base, ev) ==
    IF HalRaises(ev) THEN Raised
    ELSE [school |-> school,
          title |-> _safe_get(ev, <<"title">>, SansTitre),
          start |-> to_iso(_safe_get(ev, <<"begin_at", "beginAt", "date">>, PyNone)),
          end |-> to_iso(_safe_get(ev, <<"end_at", "endAt">>, PyNone)),
          url |-> HalUrl(base, ev),
          location |-> PyStr(HalLocation(ev)),
          city |-> IF HalAddrPart(ev, "city") # <<>>
                     THEN PyStr(HalAddrPart(ev, "city")) ELSE PyNone,
          isOnline |-> PyBool(HalIsOnline(ev)),
          description |-> PyStr(StripOr(HalDescription(ev))),
          imageUrl |-> _safe_get(ev, <<"cover", "thumbnail">>, PyNone)]

\* scraper_api_paged.py normalize, the body of its loop for one raw item:
\* plain ev.get lookups, the raw start/end kept as they are.
PagedBase == <<"https://www.essecalumni.com">>
PagedSchool == PyStr(<<"ESSEC Alumni">>)

PagedIsOnline(ev) ==
    (~Truthy(DictGet(ev, "is_on_site"))) \/ Truthy(DictGet(ev, "is_webinar"))

PagedLocation(ev) ==
    IF PagedIsOnline(ev) THEN EnLigne
    ELSE Join(CommaSpace,
              SelectSeq([k \in 1..Len(AddressKeys) |-> HalAddrPart(ev, AddressKeys[k])],
                        LAMBDA x : x # <<>>))

PagedRaises(ev) ==
    \/ ~IsDict(ev)
    \/ GetOrRaises(DictGet(ev, "_embedded"))
    \/ GetOrRaises(HalAddr(ev))
    \/ \E k \in 1..Len(AddressKeys) : StripOrRaises(GetOr(HalAddr(ev), AddressKeys[k]))
    \/ StripOrRaises(DictGet(ev, "description"))

PagedEid(ev) == StrOf(PyOr(DictGet(ev, "id"), EmptyStr))

normalize(ev) ==
    IF PagedRaises(ev) THEN Raised
    ELSE [school |-> PagedSchool,
          title |-> PyOr(DictGet(ev, "title"), SansTitre),
          start |-> PyOr(PyOr(DictGet(ev, "begin_at"), DictGet(ev, "beginAt")),
                         DictGet(ev, "date")),
          end |-> PyOr(DictGet(ev, "end_at"), DictGet(ev, "endAt")),
          url |-> PyOr(PyOr(DictGet(ev, "web_url"), DictGet(ev, "url")),
                       IF PagedEid(ev) # <<>>
                         THEN PyStr(PagedBase \o <<"/fr/calendar/index/index?id=">>
                                      \o PagedEid(ev))
                         ELSE PyNone),
          location |-> PyStr(PagedLocation(ev)),
          city |-> IF HalAddrPart(ev, "city") # <<>>
                     THEN PyStr(HalAddrPart(ev, "city")) ELSE PyNone,
          isOnline |-> PyBool(PagedIsOnline(ev)),
          description |-> PyStr(StripOr(DictGet(ev, "description"))),
          imageUrl |-> PyOr(DictGet(ev, "cover"), DictGet(ev, "thumbnail"))]

(***************************************************************************)
(* Family B: _city_from_address and normalize_arts_json.                   *)
(***************************************************************************)
\* The characters of the regex class [A-Za-zÀ-ÿ' -]: a word token
\* is a run of letters, so every token that is no digit and no comma is in it.
InCityClass(c) == c \notin Digits /\ c # ","
\* \w: digits and letter words
IsWordTok(c) == c \notin Whitespace /\ c # "," /\ c # "'" /\ c # "-"

\* the length of the longest prefix of s made of tokens of cls
RECURSIVE RunLen(_, _)
RunLen(s, cls) ==
    IF s # <<>> /\ (CASE cls = "digit" -> Head(s) \in Digits
                      [] cls = "space" -> Head(s) \in Whitespace
                      [] cls = "city" -> InCityClass(Head(s)))
      THEN 1 + RunLen(Tail(s), cls)
      ELSE 0

Drop(s, n) == SubSeq(s, n + 1, Len(s))

\* re.search(r"\b\d{4,5}\s+([A-Za-z...' -]+)", addr) anchored at position i:
\* group(1), or <<"nomatch">>.
NoMatch == <<"nomatch">>
CityMatchAt(s, i) ==
    LET rest == Drop(s, i - 1)
        nd == RunLen(rest, "digit")
        after == Drop(rest, nd)
        ns == RunLen(after, "space")
        tail == Drop(after, ns)
        ng == RunLen(tail, "city")
    IN IF ~(i = 1 \/ ~IsWordTok(s[i - 1])) THEN NoMatch
       ELSE IF nd \notin {4, 5} \/ ns = 0 THEN NoMatch
       ELSE IF ng > 0 THEN SubSeq(tail, 1, ng)
       ELSE IF ns >= 2 THEN <<" ">>
       ELSE NoMatch

RECURSIVE CitySearch(_, _)
CitySearch(s, i) ==
    IF i > Len(s) THEN NoMatch
    ELSE IF CityMatchAt(s, i) # NoMatch THEN CityMatchAt(s, i)
    ELSE CitySearch(s, i + 1)

\* addr.split(","): the pieces between the commas
RECURSIVE SplitComma(_, _)
SplitComma(s, cur) ==
    IF s = <<>> THEN <<cur>>
    ELSE IF Head(s) = "," THEN <<cur>> \o SplitComma(Tail(s), <<>>)
    ELSE SplitComma(Tail(s), Append(cur, Head(s)))

CommaParts(s) ==
    SelectSeq([k \in 1..Len(SplitComma(s, <<>>)) |-> Strip(SplitComma(s, <<>>)[k])],
              LAMBDA x : x # <<>>)

_city_from_address(addr) ==
    IF addr = <<>> THEN PyNone
    ELSE IF CitySearch(addr, 1) # NoMatch THEN PyStr(Strip(CitySearch(addr, 1)))
    ELSE IF Len(CommaParts(addr)) >= 2
      THEN PyStr(CommaParts(addr)[Len(CommaParts(addr)) - 1])
    ELSE PyNone

ArtsLocObj(ev) == DictGet(ev, "locations")
ArtsDescription(ev) == _safe_get(ev, <<"description", "content">>, EmptyStr)

ArtsRaises(ev) ==
    \/ ~IsDict(ev)
    \/ (IsDict(ArtsLocObj(ev)) /\ StripOrRaises(DictGet(ArtsLocObj(ev), "address")))
    \/ StripOrRaises(ArtsDescription(ev))

\* online decided by the truth value of locations instead of its type
ArtsIsOnlineWhenFalsy(ev) == ~Truthy(ArtsLocObj(ev))

\* isinstance(loc_obj, dict) decides; is_online is its negation
ArtsIsOnline(ev) == ~IsDict(ArtsLocObj(ev))

ArtsLocation(ev) ==
    IF IsDict(ArtsLocObj(ev)) THEN StripOr(DictGet(ArtsLocObj(ev), "address"))
    ELSE EnLigne

ArtsCity(ev) ==
    IF IsDict(ArtsLocObj(ev)) THEN _city_from_address(ArtsLocation(ev)) ELSE PyNone

ArtsUrl(base, ev) ==
    PyOr(_safe_get(ev, <<"web_url", "url", "full_url">>, PyNone),
         IF Truthy(_safe_get(ev, <<"slug", "id">>, PyNone))
           THEN PyStr(base \o <<"/events/">>
                        \o StrOf(_safe_get(ev, <<"slug", "id">>, EmptyStr)))
           ELSE PyNone)

ArtsImg(ev) ==
    _safe_get(ev, <<"cover", "thumbnail", "image", "picture", "cover_url", "image_url">>,
              PyNone)

normalize_arts_json(school, base, ev) ==
    IF ArtsRaises(ev) THEN Raised
    ELSE [school |-> school,
          title |-> _safe_get(ev, <<"title", "name">>, SansTitre),
          start |-> to_iso(_safe_get(ev, <<"start_date", "begin_at", "start_at">>, PyNone)),
          end |-> to_iso(_safe_get(ev, <<"end_date", "end_at", "end_time">>, PyNone)),
          url |-> ArtsUrl(base, ev),
          location |-> PyStr(ArtsLocation(ev)),
          city |-> ArtsCity(ev),
          isOnline |-> PyBool(ArtsIsOnline(ev)),
          description |-> PyStr(StripOr(ArtsDescription(ev))),
          imageUrl |-> IF IsDict(ArtsImg(ev)) THEN DictGet(ArtsImg(ev), "url")
                       ELSE IF IsStr(ArtsImg(ev)) THEN ArtsImg(ev) ELSE PyNone]

(***************************************************************************)
(* scraper.py parse_ics.  A calendar is the list of the components that    *)
(* cal.walk() visits, each a name and a dict of properties; Malformed is a *)
(* body Calendar.from_ical rejects.                                        *)
(***************************************************************************)
Malformed == [t |-> "malformed"]
Component(name, props) == [name |-> name, props |-> PyDict(props)]

\* a date property: hasattr(v, "dt") and the instant it holds
DateProp(hi, lo) == [t |-> "vddd", dt |-> <<hi, lo>>]
HasDt(v) == v.t = "vddd"

\* component.get(key, default)
IcsGet(c, key, default) == IF key \in DOMAIN c.props.d THEN c.props.d[key] ELSE default

IcsEvent(c, school, source) ==
    [school |-> school,
     title |-> PyStr(Strip(StrOf(IcsGet(c, "summary", EmptyStr)))),
     start |-> IF HasDt(IcsGet(c, "dtstart", PyNone))
                 THEN IsoStr(IcsGet(c, "dtstart", PyNone).dt[1],
                             IcsGet(c, "dtstart", PyNone).dt[2])
                 ELSE PyNone,
     end |-> IF HasDt(IcsGet(c, "dtend", PyNone))
               THEN IsoStr(IcsGet(c, "dtend", PyNone).dt[1],
                           IcsGet(c, "dtend", PyNone).dt[2])
               ELSE PyNone,
     url |-> IF Truthy(PyOr(IcsGet(c, "url", PyNone), IcsGet(c, "UID", PyNone)))
               THEN PyStr(StrOf(PyOr(IcsGet(c, "url", PyNone), IcsGet(c, "UID", PyNone))))
               ELSE PyNone,
     location |-> PyOr(PyStr(Strip(StrOf(IcsGet(c, "location", EmptyStr)))), PyNone),
     raw_date_text |-> PyNone,
     source |-> source]

\* the events of the VEVENT components, in walk order; any exception is
\* swallowed and what was collected is returned
parse_ics(cal, school, source) ==
    IF cal = Malformed THEN <<>>
    ELSE LET vevents == SelectSeq(cal.l, LAMBDA c : c.name = "VEVENT")
         IN [k \in 1..Len(vevents) |-> IcsEvent(vevents[k], school, source)]

(***************************************************************************)
(* The programs' state.                                                    *)
(***************************************************************************)
VARIABLES
    prog,       \* which program runs: "multi" (multi_schools.py) or "paged"
    sites,      \* SITES, the configured sources
    server,     \* the backends' behaviour: "small", "finite" or "looping"
    pc,         \* position of main: "for", "hal", "arts", "arts_done", "done", "crashed"
    i,          \* how many sites the for loop has taken
    url,        \* fetch_all_api_v2_hal / fetch_all: the URL of the next page
    page,       \* the adapter's page counter
    all_items,  \* the adapter's accumulated raw items
    items,      \* main: what the last adapter call returned
    all_rows,   \* main: the accumulating result collection
    df,         \* main: the exported frame, a sequence of rows
    requests,   \* history: the page requests issued for the current site, in order
    served,     \* history: the responses to those requests, in order
    failed,     \* history: the sites whose processing raised
    raw,        \* a single call: the raw record or calendar handed to the function
    out,        \* a single call: what the function returned
    web,        \* scraper.py: ICS_SOURCES and SITE_CONFIGS with what the sites serve
    all_events, \* fetch_all_events: the accumulating list of Events
    scraped,    \* fetch_all_events: the scraped Events of the current site not yet taken
    seen        \* fetch_all_events: the (title, start) keys collected so far

vars == <<prog, sites, server, pc, i, url, page, all_items, items, all_rows, df,
          requests, served, failed, raw, out, web, all_events, scraped, seen>>

\* bounds of the model
MaxSites == 2
MaxPages == 2
MaxListPages == 3
LoopCap == 201

\* while url and page < 200 (multi_schools.py), page < 100 (scraper_api_paged.py)
HalPageCeiling == 200
PagedPageCeiling == 100
\* qs["per_page"] = ["100"]
PerPage == 100

(***************************************************************************)
(* Raw items the backends serve.                                           *)
(***************************************************************************)
Tok(w) == PyStr(<<w>>)

\* a titled event dated in epoch seconds
ItemA == PyDict(("title" :> Tok("Gala")) @@ ("begin_at" :> PyInt(1700, 0)) @@ ("id" :> PyInt(0, 7)))
\* a titled event dated by a digit string of epoch milliseconds, earlier than ItemA
ItemB == PyDict(("title" :> Tok("AG"))
                @@ ("begin_at" :> PyStr(<<"1","6","0","0","0","0","0","0","0","0","0","0","0">>)))
\* an untitled event whose date does not parse
ItemC == PyDict(("title" :> EmptyStr) @@ ("begin_at" :> Tok("bientot")))

Bodies == {<<>>, <<ItemA, ItemB>>, <<ItemC, ItemA, ItemB>>}

\* a full page of the query-paginated backend
FullBody == [k \in 1..PerPage |-> IF k % 2 = 1 THEN ItemA ELSE ItemB]
\* the one page a looping backend keeps serving
LoopBody == <<ItemA>>

SchoolNames == <<"Mines Paris Alumni", "HEC Alumni", "ESSEC Alumni">>
SiteTypes == {"api_v2_hal", "arts_json", "rss"}

Site(k, type) ==
    [school |-> Tok(SchoolNames[k]),
     base |-> <<"https://", SchoolNames[k]>>,
     url |-> PyStr(<<"https://", SchoolNames[k], "/events">>),
     type |-> type]

SiteLists(n) ==
    UNION {{[k \in 1..m |-> Site(k, ts[k])] : ts \in [1..m -> SiteTypes]} : m \in 1..n}

(***************************************************************************)
(* The backends: what one page request can answer.  A response is the HTTP *)
(* status (0: no response, requests.get raises), the shape of its body,    *)
(* and what the page carries: its items and its next link.                 *)
(***************************************************************************)
EmptyDict == PyDict(<<>>)
Undecodable == [t |-> "undecodable"]

Resp(status, shape, body, next) ==
    [status |-> status, shape |-> shape, body |-> body, next |-> next]

\* the HAL envelope: {"_embedded": {"items": [...]}, "_links": {"next": {"href": ...}}}
HalData(body, href) ==
    PyDict(("_embedded" :> PyDict("items" :> PyList(body)))
           @@ ("_links" :> IF href = PyNone THEN EmptyDict
                           ELSE PyDict("next" :> PyDict("href" :> href))))

\* the query-paginated envelope: {"total_items": N, "events": [...]}
ArtsEnvelope(body) ==
    PyDict(("total_items" :> PyInt(0, Len(body))) @@ ("events" :> PyList(body)))

\* r.json(): the decoded body of a response
Json(resp) ==
    CASE resp.shape = "hal" -> HalData(resp.body, resp.next)
      [] resp.shape = "envelope" -> ArtsEnvelope(resp.body)
      [] resp.shape = "bare" -> PyList(resp.body)
      [] resp.shape = "noitems" -> PyDict("total_items" :> PyInt(0, 0))
      [] resp.shape = "empty" -> EmptyDict
      [] resp.shape = "text" -> Tok("maintenance")
      [] resp.shape = "undecodable" -> Undecodable

\* the relative next link a backend gives on page p
NextHref(p) == PyStr(<<"/occurrence?page=", ToString(p + 1)>>)

NoResponse == Resp(0, "undecodable", <<>>, PyNone)

\* A small or finite backend offers a continuation only below its page bound,
\* and a small one never fills a page of the query-paginated listing; a
\* looping one answers freely below the bound and from there on only continues
\* or drops the connection.
PageBound == IF server = "small" THEN MaxPages ELSE MaxListPages

HalResponses(p) ==
    IF p < PageBound
      THEN {NoResponse,
            Resp(500, "undecodable", <<>>, PyNone),
            Resp(200, "undecodable", <<>>, PyNone),
            Resp(200, "empty", <<>>, PyNone),
            Resp(200, "bare", <<>>, PyNone)}
           \cup {Resp(200, "hal", b, h) : b \in Bodies, h \in {PyNone, NextHref(p)}}
    ELSE IF server # "looping"
      THEN {NoResponse} \cup {Resp(200, "hal", b, PyNone) : b \in Bodies}
    ELSE {NoResponse, Resp(200, "hal", LoopBody, NextHref(p))}

ArtsResponses(p) ==
    IF server = "small"
      THEN {NoResponse,
            Resp(400, "undecodable", <<>>, PyNone),
            Resp(200, "noitems", <<>>, PyNone)}
           \cup {Resp(200, sh, b, PyNone) : sh \in {"envelope", "bare"}, b \in Bodies}
    ELSE IF p < PageBound
      THEN {NoResponse,
            Resp(400, "undecodable", <<>>, PyNone),
            Resp(404, "empty", <<>>, PyNone),
            Resp(200, "undecodable", <<>>, PyNone),
            Resp(200, "noitems", <<>>, PyNone),
            Resp(200, "text", <<>>, PyNone)}
           \cup {Resp(200, "envelope", b, PyNone) : b \in Bodies \cup {FullBody}}
           \cup {Resp(200, "bare", b, PyNone) : b \in Bodies}
    ELSE IF server = "finite"
      THEN {NoResponse, Resp(400, "undecodable", <<>>, PyNone)}
           \cup {Resp(200, "envelope", b, PyNone) : b \in Bodies}
    ELSE {NoResponse, Resp(200, "envelope", FullBody, PyNone)}

(***************************************************************************)
(* One iteration of each adapter's loop.                                   *)
(***************************************************************************)
\* requests.get(...); r.raise_for_status(); data = r.json()
HttpRaises(resp) == resp.status = 0 \/ resp.status >= 400 \/ Json(resp) = Undecodable

\* items = (data.get("_embedded") or {}).get("items", [])
HalItems(data) ==
    IF Truthy(DictGet(data, "_embedded")) /\ "items" \in DOMAIN DictGet(data, "_embedded").d
      THEN DictGet(data, "_embedded").d["items"]
      ELSE PyList(<<>>)

\* url = ((data.get("_links") or {}).get("next") or {}).get("href")
HalNext(data) == GetOr(GetOr(DictGet(data, "_links"), "next"), "href")

HalPageRaises(resp) ==
    \/ HttpRaises(resp)
    \/ ~IsDict(Json(resp))
    \/ GetOrRaises(DictGet(Json(resp), "_embedded"))
    \/ HalItems(Json(resp)).t # "list"
    \/ GetOrRaises(DictGet(Json(resp), "_links"))
    \/ GetOrRaises(GetOr(DictGet(Json(resp), "_links"), "next"))

\* while url and page < ceiling
HalCeiling == IF prog = "paged" THEN PagedPageCeiling ELSE HalPageCeiling
\* the loop condition without the test of url
HalLoopCondNoUrl == page < HalCeiling
HalLoopCond == Truthy(url) /\ page < HalCeiling

\* full = url if url.startswith("http") else (base + url)
StartsWithHttp(u) == u # <<>> /\ Head(u) \in {"http://", "https://"}
FullUrl(base, u) == IF StartsWithHttp(u) THEN u ELSE base \o u

\* items = data.get("events") if isinstance(data, dict)
\*         else (data if isinstance(data, list) else [])
ArtsItems(data) ==
    IF IsDict(data) THEN DictGet(data, "events")
    ELSE IF data.t = "list" THEN data
    ELSE PyList(<<>>)

\* fetch_all_arts_json with raise_for_status() moved above the status test
ArtsOutcomeStatusLate(resp, pg) ==
    IF HttpRaises(resp) THEN "raise"
    ELSE IF resp.status = 400 THEN "break"
    ELSE IF ArtsItems(Json(resp)).t # "list" THEN "raise"
    ELSE IF ArtsItems(Json(resp)).l = <<>> THEN "break"
    ELSE IF Len(ArtsItems(Json(resp)).l) < PerPage THEN "last"
    ELSE "more"

\* fetch_all_arts_json without the short-page test
ArtsOutcomeNoShortStop(resp, pg) ==
    IF resp.status = 0 THEN "raise"
    ELSE IF resp.status = 400 THEN "break"
    ELSE IF HttpRaises(resp) THEN "raise"
    ELSE IF ArtsItems(Json(resp)).t # "list" THEN "raise"
    ELSE IF ArtsItems(Json(resp)).l = <<>> THEN "break"
    ELSE "more"

\* What one iteration of fetch_all_arts_json does with the response to the
\* request for page pg: "raise", "break" (nothing added), "last" (items added,
\* then break) or "more" (items added, loop again).
ArtsOutcome(resp, pg) ==
    IF resp.status = 0 THEN "raise"
    ELSE IF resp.status = 400 THEN "break"
    ELSE IF HttpRaises(resp) THEN "raise"
    ELSE IF ArtsItems(Json(resp)).t # "list" THEN "raise"
    ELSE IF pg = 1 /\ ArtsItems(Json(resp)).l # <<>> /\ ~IsDict(ArtsItems(Json(resp)).l[1])
      THEN "raise"
    ELSE IF ArtsItems(Json(resp)).l = <<>> THEN "break"
    ELSE IF Len(ArtsItems(Json(resp)).l) < PerPage THEN "last"
    ELSE "more"

(***************************************************************************)
(* Export: date-column coercion and the final sort.                        *)
(***************************************************************************)
NaT == [t |-> "nat"]
Timestamp(ms) == [t |-> "ts", ms |-> ms]

\* pd.to_datetime(column, errors="coerce") on one cell: the text of an instant
\* parses back to it, an int counts nanoseconds, anything else becomes NaT.
ToDatetime(v) ==
    IF v.t = "str" /\ "iso" \in DOMAIN v THEN Timestamp(v.iso)
    ELSE IF IsTokStr(v) /\ Strip(v.s) \in IsoTexts THEN Timestamp(ParseDateText(Strip(v.s)))
    ELSE IF v.t = "int" THEN Timestamp(<<v.hi \div Limb, v.hi % Limb>>)
    ELSE NaT

CoerceStart(row) == [row EXCEPT !.start = ToDatetime(row.start)]

\* Python's order on the configured school names
SchoolRank(school) ==
    CASE school = Tok("ESSEC Alumni") -> 1
      [] school = Tok("HEC Alumni") -> 2
      [] school = Tok("Mines Paris Alumni") -> 3

\* the sort key without the school column
SortKeyStartOnly(row, bySchool) ==
    <<IF row.start = NaT THEN 1 ELSE 0,
      IF row.start = NaT THEN 0 ELSE row.start.ms[1],
      IF row.start = NaT THEN 0 ELSE row.start.ms[2],
      0>>

\* the sort key of a row under sort_values(by, na_position="last")
SortKey(row, bySchool) ==
    <<IF row.start = NaT THEN 1 ELSE 0,
      IF row.start = NaT THEN 0 ELSE row.start.ms[1],
      IF row.start = NaT THEN 0 ELSE row.start.ms[2],
      IF bySchool THEN SchoolRank(row.school) ELSE 0>>

RECURSIVE TupleLess(_, _)
TupleLess(a, b) ==
    IF a = <<>> THEN FALSE
    ELSE Head(a) < Head(b) \/ (Head(a) = Head(b) /\ TupleLess(Tail(a), Tail(b)))

RECURSIVE SortedKeys(_)
SortedKeys(ks) ==
    IF ks = {} THEN <<>>
    ELSE LET m == CHOOSE k \in ks : \A o \in ks : ~TupleLess(o, k)
         IN <<m>> \o SortedKeys(ks \ {m})

RECURSIVE ConcatAll(_)
ConcatAll(ss) == IF ss = <<>> THEN <<>> ELSE Head(ss) \o ConcatAll(Tail(ss))

\* df.sort_values(by, na_position="last"): rows in key order, rows of one key
\* in their collection order
SortValues(rows, bySchool) ==
    LET ks == SortedKeys({SortKey(rows[k], bySchool) : k \in 1..Len(rows)})
    IN ConcatAll([n \in 1..Len(ks) |->
                    SelectSeq(rows, LAMBDA r : SortKey(r, bySchool) = ks[n])])

\* df = pd.DataFrame(all_rows); if "start" in df.columns: coerce, then sort
ExportFrame(rows, bySchool) ==
    IF rows = <<>> THEN <<>>
    ELSE SortValues([k \in 1..Len(rows) |-> CoerceStart(rows[k])], bySchool)

(***************************************************************************)
(* main                                                                    *)
(***************************************************************************)
\* multi_schools.py main wraps each site in try/except Exception;
\* scraper_api_paged.py main has no handler.
Caught(exc) == prog = "multi"

Normalizer(site, ev) ==
    IF prog = "paged" THEN normalize(ev)
    ELSE IF site.type = "api_v2_hal" THEN normalize_api_v2_hal(site.school, site.base, ev)
    ELSE normalize_arts_json(site.school, site.base, ev)

\* rows = [normalize_...(school, base, ev) for ev in items]
NormRows(site, its) == [k \in 1..Len(its) |-> Normalizer(site, its[k])]
NormRaises(site, its) == \E k \in 1..Len(its) : Normalizer(site, its[k]) = Raised

Request(pg, full) == [site |-> i, page |-> pg, url |-> full]

\* the adapter's frame is gone once it returned or raised
FrameGone == url' = PyNone /\ page' = 0 /\ all_items' = <<>>

\* an except branch that keeps what the adapter had accumulated
FailKeepsPartial(exc) ==
    /\ pc' = "for"
    /\ failed' = failed \cup {i}
    /\ FrameGone
    /\ all_rows' = all_rows \o NormRows(sites[i], all_items)
    /\ UNCHANGED items

\* the except branch: rows = []; all_rows.extend(rows)
Fail(exc) ==
    /\ pc' = IF Caught(exc) THEN "for" ELSE "crashed"
    /\ failed' = failed \cup {i}
    /\ FrameGone
    /\ UNCHANGED <<all_rows, items>>

\* a collection step that puts the new rows in front of the collected ones
CollectPrepends(its) ==
    /\ items' = its
    /\ FrameGone
    /\ IF NormRaises(sites[i], its)
         THEN /\ pc' = IF Caught("AttributeError") THEN "for" ELSE "crashed"
              /\ failed' = failed \cup {i}
              /\ UNCHANGED all_rows
         ELSE /\ pc' = "for"
              /\ all_rows' = NormRows(sites[i], its) \o all_rows
              /\ UNCHANGED failed

\* the adapter returned its: normalize them and extend the collection
Collect(its) ==
    /\ items' = its
    /\ FrameGone
    /\ IF NormRaises(sites[i], its)
         THEN /\ pc' = IF Caught("AttributeError") THEN "for" ELSE "crashed"
              /\ failed' = failed \cup {i}
              /\ UNCHANGED all_rows
         ELSE /\ pc' = "for"
              /\ all_rows' = all_rows \o NormRows(sites[i], its)
              /\ UNCHANGED failed

BeginHal ==
    /\ pc = "for" /\ i < Len(sites)
    /\ prog = "paged" \/ sites[i + 1].type = "api_v2_hal"
    /\ i' = i + 1
    /\ pc' = "hal"
    /\ url' = sites[i + 1].url
    /\ page' = 0
    /\ all_items' = <<>>
    /\ requests' = <<>>
    /\ served' = <<>>
    /\ UNCHANGED <<prog, sites, server, items, all_rows, df, failed>>
    /\ UNCHANGED <<raw, out, web, all_events, scraped, seen>>

BeginArts ==
    /\ pc = "for" /\ i < Len(sites)
    /\ prog = "multi" /\ sites[i + 1].type = "arts_json"
    /\ i' = i + 1
    /\ pc' = "arts"
    /\ page' = 0
    /\ all_items' = <<>>
    /\ requests' = <<>>
    /\ served' = <<>>
    /\ UNCHANGED <<prog, sites, server, url, items, all_rows, df, failed>>
    /\ UNCHANGED <<raw, out, web, all_events, scraped, seen>>

\* an unknown type that replaces the collection by its empty rows
SkipUnknownDropsRows ==
    /\ pc = "for" /\ i < Len(sites)
    /\ prog = "multi" /\ sites[i + 1].type \notin {"api_v2_hal", "arts_json"}
    /\ i' = i + 1
    /\ requests' = <<>>
    /\ served' = <<>>
    /\ all_rows' = <<>>
    /\ UNCHANGED <<prog, sites, server, pc, url, page, all_items, items, df, failed, raw, out,
                   web, all_events, scraped, seen>>

\* an unknown type: a warning, rows = [], all_rows.extend(rows)
SkipUnknown ==
    /\ pc = "for" /\ i < Len(sites)
    /\ prog = "multi" /\ sites[i + 1].type \notin {"api_v2_hal", "arts_json"}
    /\ i' = i + 1
    /\ requests' = <<>>
    /\ served' = <<>>
    /\ UNCHANGED <<prog, sites, server, pc, url, page, all_items, items, all_rows, df,
                   failed>>
    /\ UNCHANGED <<raw, out, web, all_events, scraped, seen>>

\* one iteration of the while loop of fetch_all_api_v2_hal / fetch_all
HalPage ==
    /\ pc = "hal" /\ HalLoopCond
    /\ IF ~IsTokStr(url)
         THEN /\ Fail("AttributeError")
              /\ UNCHANGED <<requests, served>>
         ELSE \E resp \in HalResponses(page + 1) :
                /\ requests' = Append(requests,
                                      Request(page + 1, FullUrl(sites[i].base, url.s)))
                /\ served' = Append(served, resp)
                /\ IF HalPageRaises(resp)
                     THEN Fail("HTTPError")
                     ELSE /\ page' = page + 1
                          /\ all_items' = all_items \o HalItems(Json(resp)).l
                          /\ url' = HalNext(Json(resp))
                          /\ UNCHANGED <<pc, items, all_rows, failed>>
    /\ UNCHANGED <<prog, sites, server, i, df>>
    /\ UNCHANGED <<raw, out, web, all_events, scraped, seen>>

\* the loop condition fails: return all_items, then normalize and collect
HalReturn ==
    /\ pc = "hal" /\ ~HalLoopCond
    /\ Collect(all_items)
    /\ UNCHANGED <<prog, sites, server, i, df, requests, served>>
    /\ UNCHANGED <<raw, out, web, all_events, scraped, seen>>

\* one iteration of the while True loop of fetch_all_arts_json
ArtsPage ==
    /\ pc = "arts" /\ page < LoopCap
    /\ \E resp \in ArtsResponses(page + 1) :
         /\ requests' = Append(requests, Request(page + 1, sites[i].url.s))
         /\ served' = Append(served, resp)
         /\ CASE ArtsOutcome(resp, page + 1) = "raise" ->
                   Fail("HTTPError")
              [] ArtsOutcome(resp, page + 1) = "break" ->
                   /\ pc' = "arts_done"
                   /\ page' = page + 1
                   /\ UNCHANGED <<url, all_items, items, all_rows, failed>>
              [] ArtsOutcome(resp, page + 1) \in {"last", "more"} ->
                   /\ all_items' = all_items \o ArtsItems(Json(resp)).l
                   /\ page' = page + 1
                   /\ pc' = IF ArtsOutcome(resp, page + 1) = "last" THEN "arts_done"
                            ELSE "arts"
                   /\ UNCHANGED <<url, items, all_rows, failed>>
    /\ UNCHANGED <<prog, sites, server, i, df>>
    /\ UNCHANGED <<raw, out, web, all_events, scraped, seen>>

\* after the break: return all_items, then normalize and collect
ArtsReturn ==
    /\ pc = "arts_done"
    /\ Collect(all_items)
    /\ UNCHANGED <<prog, sites, server, i, df, requests, served>>
    /\ UNCHANGED <<raw, out, web, all_events, scraped, seen>>

\* after the last site: build the frame, coerce the dates, sort, write
Export ==
    /\ pc = "for" /\ i = Len(sites)
    /\ df' = ExportFrame(all_rows, prog = "multi")
    /\ pc' = "done"
    /\ UNCHANGED <<prog, sites, server, i, url, page, all_items, items, all_rows,
                   requests, served, failed>>
    /\ UNCHANGED <<raw, out, web, all_events, scraped, seen>>

\* scraper.py does not run
NoScraper == web = PyNone /\ all_events = <<>> /\ scraped = <<>> /\ seen = {}

Start(p, ss, srv) ==
    /\ prog = p
    /\ sites = ss
    /\ server = srv
    /\ pc = "for"
    /\ i = 0
    /\ url = PyNone
    /\ page = 0
    /\ all_items = <<>>
    /\ items = <<>>
    /\ all_rows = <<>>
    /\ df = <<>>
    /\ requests = <<>>
    /\ served = <<>>
    /\ failed = {}
    /\ raw = PyNone
    /\ out = PyNone
    /\ NoScraper

\* scraper_api_paged.py: the one ESSEC source
PagedSites == <<[school |-> PagedSchool, base |-> PagedBase,
                 url |-> PyStr(PagedBase \o <<"/api/v2/public/agenda/occurrence">>),
                 type |-> "api_v2_hal"]>>

Init ==
    \/ \E ss \in SiteLists(MaxSites) : Start("multi", ss, "small")
    \/ Start("paged", PagedSites, "small")

Next ==
    \/ BeginHal
    \/ BeginArts
    \/ SkipUnknown
    \/ HalPage
    \/ HalReturn
    \/ ArtsPage
    \/ ArtsReturn
    \/ Export

Spec == Init /\ [][Next]_vars

\* one source at a time, against a backend that fills its pages and one that
\* never ends its listing
InitFetch ==
    \E srv \in {"finite", "looping"} :
        \/ \E ss \in SiteLists(1) : Start("multi", ss, srv)
        \/ Start("paged", PagedSites, srv)

SpecFetch == InitFetch /\ [][Next]_vars

(***************************************************************************)
(* Single calls: one normalizer, or parse_ics, applied to one raw input.   *)
(***************************************************************************)
\* how many components a calendar has at most
MaxComponents == 2

Absent == [t |-> "absent"]
NoKeys == [k \in {} |-> PyNone]
\* the dict d with key k set to v, or without it when v is Absent
WithKey(d, k, v) == IF v = Absent THEN d ELSE (k :> v) @@ d
Chars(cs) == PyStr(cs)

AddrParis == <<"1", "2", " ", "Rue", " ", "X", ",", " ",
               "7", "5", "0", "0", "8", " ", "Paris", ",", " ", "France">>
AddrCergy == <<" ", "Campus", ",", " ", "Cergy", ",", " ", "France", " ">>

\* _embedded.address objects of family A
VenueObjects ==
    {Absent,
     PyDict("venue" :> Chars(EnLigne)),
     PyDict(("venue" :> Chars(<<" ", "Campus", " ">>))
            @@ ("address" :> Chars(<<"1", " ", "Rue", " ", "X">>))
            @@ ("address_2" :> EmptyStr)
            @@ ("zip" :> Chars(<<"7", "5", "0", "0", "8">>))
            @@ ("city" :> Tok("Paris"))
            @@ ("country_iso" :> Tok("FR"))),
     PyDict(("venue" :> PyNone) @@ ("address_2" :> Chars(<<" ">>)) @@ ("city" :> Tok("Paris"))),
     PyDict(("zip" :> PyInt(0, 75008)) @@ ("city" :> Tok("Paris")))}

FlagValues == {Absent, PyNone, PyBool(TRUE), PyBool(FALSE)}
TitleValues == {Absent, EmptyStr, Tok("Gala")}

HalInputs ==
    {PyDict(WithKey(WithKey(WithKey(WithKey(NoKeys,
        "_embedded", IF a = Absent THEN Absent ELSE PyDict("address" :> a)),
        "is_webinar", w), "is_on_site", s), "title", t)) :
       t \in TitleValues, s \in FlagValues, w \in FlagValues, a \in VenueObjects}

\* locations values of family B
LocationsValues ==
    {Absent, PyNone, EmptyDict, Tok("Paris"),
     PyDict("address" :> Chars(AddrParis)),
     PyDict("address" :> Chars(AddrCergy)),
     PyDict("address" :> Chars(EnLigne)),
     PyDict("address" :> EmptyStr),
     PyDict("address" :> PyInt(0, 75008))}

ArtsInputs ==
    {PyDict(WithKey(WithKey(NoKeys, "locations", l), "title", t)) :
       t \in TitleValues, l \in LocationsValues}

IcsComponents ==
    {Component("VEVENT", ("summary" :> Tok("Gala")) @@ ("dtstart" :> DateProp(1700000, 0))
                           @@ ("UID" :> Tok("u1"))),
     Component("VEVENT", ("dtstart" :> DateProp(1700000, 0)) @@ ("location" :> Tok("Paris"))),
     Component("VEVENT", "summary" :> Chars(<<" ">>)),
     Component("VTIMEZONE", "tzid" :> Tok("Europe/Paris"))}

Calendars ==
    {Malformed} \cup
    UNION {{PyList(cs) : cs \in [1..n -> IcsComponents]} : n \in 0..MaxComponents}

\* epoch values, in limbs, on both sides of the unit threshold and of the
\* datetime range
EpochValues ==
    {<<0, 0>>, <<0, 7>>, <<200, 5>>, <<1700, 0>>, <<9223, 372036>>, <<9223, 372037>>,
     <<99999, 999999>>, <<100000, 0>>, <<100000, 1>>, <<200000, 5000>>, <<1700000, 0>>,
     <<9223372, 36854>>, <<9223372, 36855>>, <<100000000, 0>>}

\* the decimal text of an int
DigitText(n) == StrOf(PyInt(n[1], n[2]))

\* what a date field of a raw item can hold
DateValues ==
    {PyInt(n[1], n[2]) : n \in EpochValues}
    \cup {Chars(DigitText(n)) : n \in EpochValues}
    \cup {Chars(<<" ", "0">> \o DigitText(n) \o <<" ">>) : n \in EpochValues}
    \cup {Chars(t) : t \in IsoTexts}
    \cup {PyNone, EmptyStr, Chars(<<" ">>), Chars(<<"nan">>), Chars(<<"bientot">>),
          Chars(<<"1", "2", " ", "mai">>), PyBool(TRUE), PyList(<<>>)}

NormSchool == Site(2, "api_v2_hal").school
NormBase == Site(2, "api_v2_hal").base
IcsSource == Tok("ics")

Return(f, v) ==
    /\ pc = "call"
    /\ pc' = f
    /\ out' = v
    /\ UNCHANGED <<prog, sites, server, i, url, page, all_items, items, all_rows, df,
                   requests, served, failed, raw, web, all_events, scraped, seen>>

CallHal == IsDict(raw) /\ Return("normalize_api_v2_hal", normalize_api_v2_hal(NormSchool, NormBase, raw))

CallPaged == IsDict(raw) /\ Return("normalize", normalize(raw))

CallArts == IsDict(raw) /\ Return("normalize_arts_json", normalize_arts_json(NormSchool, NormBase, raw))

CallParseIcs == raw \in Calendars /\ Return("parse_ics", PyList(parse_ics(raw, NormSchool, IcsSource)))

CallToIso == raw \in DateValues /\ Return("to_iso", to_iso(raw))

InitNorm ==
    /\ prog = "call"
    /\ sites = <<>>
    /\ server = "small"
    /\ pc = "call"
    /\ i = 0
    /\ url = PyNone
    /\ page = 0
    /\ all_items = <<>>
    /\ items = <<>>
    /\ all_rows = <<>>
    /\ df = <<>>
    /\ requests = <<>>
    /\ served = <<>>
    /\ failed = {}
    /\ raw \in HalInputs \cup ArtsInputs \cup Calendars \cup DateValues
    /\ out = PyNone
    /\ NoScraper

NextNorm == CallHal \/ CallPaged \/ CallArts \/ CallParseIcs \/ CallToIso

SpecNorm == InitNorm /\ [][NextNorm]_vars

(***************************************************************************)
(* scraper.py fetch_all_events: direct calendar feeds, feeds discovered on *)
(* the agenda pages, then the browser scrape merged by (title, start).     *)
(***************************************************************************)
\* how many event cards a site's agenda shows at most
MaxCards == 2

\* An event card as the browser shows it: the text of its title element (None
\* when no selector finds one) and the date dateparser reads from it.
Cards ==
    {[title |-> Tok("Gala"), date |-> DateProp(1700000, 0)],
     [title |-> Tok("AG"), date |-> PyNone]}

GalaVevent ==
    Component("VEVENT", ("summary" :> Tok("Gala")) @@ ("dtstart" :> DateProp(1700000, 0)))

\* SITE_CONFIGS with what each site serves: the calendars behind the .ics
\* links of its agenda page and the cards of the pages the browser visits.
SiteConfigs ==
    {<<[school |-> Tok("ESSEC Alumni"), agenda_url |-> Tok("https://essec/agenda"),
        ics |-> l1, cards |-> c1],
       [school |-> Tok("HEC Alumni"), agenda_url |-> Tok("https://hec/agenda"),
        ics |-> l2, cards |-> c2]>> :
       l1 \in {<<>>, <<PyList(<<GalaVevent>>)>>}, l2 \in {<<>>, <<PyList(<<GalaVevent>>)>>},
       c1 \in UNION {[1..n -> Cards] : n \in 0..MaxCards},
       c2 \in UNION {[1..n -> Cards] : n \in 0..MaxCards}}

\* ICS_SOURCES with the calendar each URL serves
IcsSources ==
    {<<>>,
     <<[school |-> Tok("ESSEC Alumni"), url |-> Tok("https://essec/agenda.ics"),
        cal |-> PyList(<<GalaVevent, GalaVevent>>)]>>}

\* the Event of one card; a card whose handling raises is skipped and is not
\* among the cards
CardEvent(cfg, card) ==
    [school |-> cfg.school,
     title |-> IF card.title = PyNone THEN SansTitre ELSE PyStr(Strip(card.title.s)),
     start |-> IF HasDt(card.date) THEN IsoStr(card.date.dt[1], card.date.dt[2]) ELSE PyNone,
     end |-> PyNone,
     url |-> PyNone,
     location |-> PyNone,
     raw_date_text |-> IF HasDt(card.date) THEN Tok("14 novembre 2023") ELSE PyNone,
     source |-> cfg.agenda_url]

scrape_with_selenium(cfg) == [k \in 1..Len(cfg.cards) |-> CardEvent(cfg, cfg.cards[k])]

\* key = (ev.title, ev.start)
EventKey(e) == <<e.title, e.start>>

\* the parts of the state fetch_all_events never touches
ScraperFrame ==
    UNCHANGED <<prog, sites, server, url, page, all_items, items, all_rows, df,
                requests, served, failed, raw, out, web>>

\* for src in ICS_SOURCES: all_events.extend(parse_ics(...))
IcsDirect ==
    /\ pc = "ics_sources"
    /\ all_events' = all_events \o
          ConcatAll([k \in 1..Len(web.ics_sources) |->
                        parse_ics(web.ics_sources[k].cal, web.ics_sources[k].school,
                                  web.ics_sources[k].url)])
    /\ pc' = "ics_links"
    /\ UNCHANGED <<i, scraped, seen>>
    /\ ScraperFrame

\* for cfg in SITE_CONFIGS: for ics in find_ics_links(...): all_events.extend(...)
IcsDiscovered ==
    /\ pc = "ics_links"
    /\ all_events' = all_events \o
          ConcatAll([k \in 1..Len(web.configs) |->
                        ConcatAll([l \in 1..Len(web.configs[k].ics) |->
                                      parse_ics(web.configs[k].ics[l], web.configs[k].school,
                                                web.configs[k].agenda_url)])])
    /\ pc' = "selenium"
    /\ UNCHANGED <<i, scraped, seen>>
    /\ ScraperFrame

\* the next cfg of the third loop: scraped = scrape_with_selenium(cfg);
\* seen = {(e.title, e.start) for e in all_events}
Scrape ==
    /\ pc = "selenium" /\ i < Len(web.configs)
    /\ i' = i + 1
    /\ scraped' = scrape_with_selenium(web.configs[i + 1])
    /\ seen' = {EventKey(all_events[k]) : k \in 1..Len(all_events)}
    /\ pc' = "dedup"
    /\ UNCHANGED all_events
    /\ ScraperFrame

\* for ev in scraped: if key not in seen: all_events.append(ev); seen.add(key)
TakeScraped ==
    /\ pc = "dedup" /\ scraped # <<>>
    /\ IF EventKey(Head(scraped)) \notin seen
         THEN /\ all_events' = Append(all_events, Head(scraped))
              /\ seen' = seen \cup {EventKey(Head(scraped))}
         ELSE UNCHANGED <<all_events, seen>>
    /\ scraped' = Tail(scraped)
    /\ UNCHANGED <<pc, i>>
    /\ ScraperFrame

\* the inner loop is exhausted: on to the next cfg, or return all_events
EndScraped ==
    /\ pc = "dedup" /\ scraped = <<>>
    /\ pc' = IF i < Len(web.configs) THEN "selenium" ELSE "returned"
    /\ UNCHANGED <<i, all_events, scraped, seen>>
    /\ ScraperFrame

InitScraper ==
    /\ prog = "scraper"
    /\ sites = <<>>
    /\ server = "small"
    /\ pc = "ics_sources"
    /\ i = 0
    /\ url = PyNone
    /\ page = 0
    /\ all_items = <<>>
    /\ items = <<>>
    /\ all_rows = <<>>
    /\ df = <<>>
    /\ requests = <<>>
    /\ served = <<>>
    /\ failed = {}
    /\ raw = PyNone
    /\ out = PyNone
    /\ web \in {[ics_sources |-> srcs, configs |-> cfgs] :
                  srcs \in IcsSources, cfgs \in SiteConfigs}
    /\ all_events = <<>>
    /\ scraped = <<>>
    /\ seen = {}

NextScraper == IcsDirect \/ IcsDiscovered \/ Scrape \/ TakeScraped \/ EndScraped

SpecScraper == InitScraper /\ [][NextScraper]_vars

(***************************************************************************)
(* Properties.                                                             *)
(***************************************************************************)
\* the items the logged pages carried, in page order
PageItems(log) == ConcatAll([k \in 1..Len(log) |-> log[k].body])

Count(seq, P(_)) == Len(SelectSeq(seq, P))

IsPrefix(a, b) == Len(a) <= Len(b) /\ SubSeq(b, 1, Len(a)) = a

\* a successful, well-formed page of each backend family
HalGood(r) == r.status = 200 /\ r.shape \in {"hal", "empty"}
ArtsGood(r) == r.status = 200 /\ r.shape \in {"envelope", "bare"}

\* the site the for loop is at is of this type
AtSite(type) == i > 0 /\ sites[i].type = type

\* what the adapter call of the current site returned, once its loop has ended
Returned == IF pc \in {"hal", "arts", "arts_done"} THEN all_items ELSE items

\* the rows of the collection that carry the school of site k
RowsOfSite(rows, k) == SelectSeq(rows, LAMBDA r : r.school = sites[k].school)

\* C1: in multi_schools.py main, a source whose page request or decoding
\* raises contributes no record to the final collection, not even the items of
\* the pages it had fetched; the step on which it fails leaves the collection
\* as it was and the run goes on; every other source's records are added and
\* never removed; no exception escapes.
C1_FailureForfeitsOnlyThatSource ==
    /\ [](prog = "multi" => pc # "crashed")
    /\ [](prog = "multi" =>
            \A k \in failed : RowsOfSite(all_rows, k) = <<>> /\ RowsOfSite(df, k) = <<>>)
    /\ [][prog = "multi" /\ pc # "for" /\ pc' = "for" =>
            IF i \in failed'
              THEN all_rows' = all_rows
              ELSE /\ Len(all_rows') = Len(all_rows) + Len(PageItems(served'))
                   /\ Len(RowsOfSite(all_rows', i)) = Len(PageItems(served'))]_vars
    /\ [][IsPrefix(all_rows, all_rows')]_vars
    /\ [](pc = "done" => Len(df) = Len(all_rows))

\* C1 witness: two sources, the second failed after it had fetched a page
\* with items, the first gave 5 items, and the output holds exactly 5 records.
C1_Witness ==
    /\ prog = "multi" /\ pc = "done" /\ Len(sites) = 2 /\ failed = {2}
    /\ PageItems(served) # <<>>
    /\ Len(df) = 5

\* C2: the hypermedia adapter never issues a request after a successful page
\* without a next link; when it returns without raising it has followed every
\* next link (its last page has none, or the ceiling is reached) and returns
\* the concatenation of the pages' items in page order; it raises only on a
\* page that is not a successful one.
C2_HalFollowsLinksAndStops ==
    AtSite("api_v2_hal") =>
      /\ \A j \in 1..Len(served) :
            HalGood(served[j]) /\ served[j].next = PyNone => j = Len(served)
      /\ Len(requests) = Len(served)
      /\ i \in failed => \E j \in 1..Len(served) : ~HalGood(served[j])
      /\ pc \in {"for", "done"} /\ i \notin failed =>
            /\ Len(served) >= 1
            /\ served[Len(served)].next = PyNone \/ Len(served) = HalCeiling
            /\ items = PageItems(served)

\* C2 witness: three successful pages, the third without a next link, then
\* the return of their concatenation.
C2_Witness ==
    /\ AtSite("api_v2_hal") /\ pc = "for" /\ i \notin failed
    /\ Len(requests) = 3
    /\ \A j \in 1..3 : served[j].body # <<>>
    /\ served[3].next = PyNone

ArtsFull(r) == ArtsGood(r) /\ Len(r.body) = PerPage
ArtsShort(r) == ArtsGood(r) /\ r.body # <<>> /\ Len(r.body) < PerPage

\* C3: in the query-paginated adapter, a non-empty page shorter than the page
\* size that follows only full pages is the last request: the loop has ended
\* without raising and the result is the concatenation of all pages' items.
C3_ArtsStopsAfterShortPage ==
    AtSite("arts_json") =>
      \A j \in 1..Len(served) :
         ArtsShort(served[j]) /\ (\A m \in 1..(j - 1) : ArtsFull(served[m])) =>
            /\ j = Len(served) /\ Len(requests) = j
            /\ pc # "arts"
            /\ i \notin failed
            /\ Returned = PageItems(served)

\* C3 witness: two full pages, then a short one, then the return.
C3_Witness ==
    /\ AtSite("arts_json") /\ pc = "for" /\ i \notin failed
    /\ Len(served) = 3
    /\ ArtsFull(served[1]) /\ ArtsFull(served[2]) /\ ArtsShort(served[3])
    /\ Len(items) > 2 * PerPage

\* C4: each page-following adapter issues at most a fixed number of page
\* requests (the hard ceiling), whatever the backend answers.
C4_PageCeiling == Len(requests) <= HalCeiling

\* C5: in the query-paginated adapter a 400 response ends the data: it is the
\* last request, nothing is raised although its body does not decode, and the
\* result is what the pages before it gave.  The status is tested before the
\* body is read, an empty items array ends the loop next, a short one last.
C5_ArtsClientErrorEndsData ==
    AtSite("arts_json") =>
      \A j \in 1..Len(served) :
         /\ served[j].status = 400 =>
               /\ j = Len(served) /\ Len(requests) = j
               /\ pc # "arts"
               /\ i \notin failed
               /\ Returned = PageItems(SubSeq(served, 1, j - 1))
         /\ ArtsGood(served[j]) /\ served[j].body = <<>> =>
               /\ j = Len(served)
               /\ pc # "arts"
               /\ i \notin failed
               /\ Returned = PageItems(SubSeq(served, 1, j - 1))
         /\ ArtsGood(served[j]) /\ Len(served[j].body) < PerPage => j = Len(served)

\* C5 witness: a full page, then a 400 whose body does not decode, then the
\* return of the first page's items.
C5_Witness ==
    /\ AtSite("arts_json") /\ pc = "for" /\ i \notin failed
    /\ Len(served) = 2
    /\ ArtsFull(served[1])
    /\ served[2].status = 400 /\ served[2].shape = "undecodable"
    /\ Len(items) = PerPage

\* row x may stand before row y in the output
MayPrecede(x, y) ==
    /\ x.start = NaT => y.start = NaT
    /\ x.start # NaT /\ y.start # NaT =>
          /\ ~LimbGreater(x.start.ms, y.start.ms)
          /\ x.start.ms = y.start.ms => SchoolRank(x.school) <= SchoolRank(y.school)

\* output row d is collected row r with its start column coerced
IsExportOf(d, r) ==
    /\ [f \in DOMAIN d \ {"start"} |-> d[f]] = [f \in DOMAIN r \ {"start"} |-> r[f]]
    /\ d.start = IF r.start.t = "str" /\ "iso" \in DOMAIN r.start
                   THEN Timestamp(r.start.iso) ELSE NaT

\* C6: the output of multi_schools.py main is in ascending order of start,
\* every row without a valid start stands after every row with one, rows of
\* equal start are in school order, and the output is a permutation of the
\* collected rows: a row whose date is absent or invalid is kept, with a
\* missing start.
C6_FinalOrder ==
    prog = "multi" /\ pc = "done" =>
      /\ \A a, b \in 1..Len(df) : a < b => MayPrecede(df[a], df[b])
      /\ Len(df) = Len(all_rows)
      /\ \A a \in 1..Len(df) :
            Count(df, LAMBDA d : d = df[a])
               = Count(all_rows, LAMBDA r : IsExportOf(df[a], r))

\* C6 witness: an output with a row without start, two rows of equal start
\* from different schools, and an order that is not the collection order.
C6_Witness ==
    /\ prog = "multi" /\ pc = "done"
    /\ \E a, b \in 1..Len(df) :
          /\ a < b /\ df[a].start # NaT
          /\ df[a].start = df[b].start /\ df[a].school # df[b].school
    /\ \E a \in 1..Len(df) : df[a].start = NaT
    /\ \E a \in 1..Len(df) : ~IsExportOf(df[a], all_rows[a])

\* C7: in the final collection no two records share the same title and the
\* same start time, whatever the sources return.
C7_NoDuplicateTitleStart ==
    pc = "done" =>
      \A a, b \in 1..Len(df) :
         a # b /\ df[a].start # NaT =>
            ~(df[a].title = df[b].title /\ df[a].start = df[b].start)

\* the Events a single call produced
Produced ==
    IF pc = "parse_ics" THEN out.l
    ELSE IF pc \in {"normalize_api_v2_hal", "normalize", "normalize_arts_json"} /\ out # Raised
      THEN <<out>>
    ELSE <<>>

\* C8: every Event a normalizer or parse_ics produces has a non-empty school
\* and a non-empty title.
C8_SchoolAndTitlePresent ==
    \A k \in 1..Len(Produced) :
       /\ Produced[k].title \notin {PyNone, EmptyStr}
       /\ Produced[k].school \notin {PyNone, EmptyStr}

\* the flag of the raw record is present and true
FlagSet(k) == k \in DOMAIN raw.d /\ raw.d[k] = PyBool(TRUE)

\* the stripped text of fragment k of the raw record's address object
Fragment(k) ==
    IF /\ "_embedded" \in DOMAIN raw.d
       /\ "address" \in DOMAIN raw.d["_embedded"].d
       /\ k \in DOMAIN raw.d["_embedded"].d["address"].d
       /\ IsTokStr(raw.d["_embedded"].d["address"].d[k])
      THEN Strip(raw.d["_embedded"].d["address"].d[k].s)
      ELSE <<>>

FragmentOrder == <<"venue", "address", "address_2", "zip", "city", "country_iso">>

ExpectedAddress ==
    Join(<<",", " ">>,
         SelectSeq([k \in 1..Len(FragmentOrder) |-> Fragment(FragmentOrder[k])],
                   LAMBDA f : f # <<>>))

FamilyAReturned == pc \in {"normalize_api_v2_hal", "normalize"} /\ out # Raised

\* C9 as stated: besides the flag rule, location is the marker "En ligne"
\* exactly when isOnline is true.
C9_MarkerExactlyWhenOnline ==
    FamilyAReturned =>
      (out.location = PyStr(<<"En", " ", "ligne">>) <=> out.isOnline = PyBool(TRUE))

\* C9 amended: for every combination of the flags, isOnline is true exactly
\* when the record is not on-site or is a webinar; location is the marker
\* "En ligne" whenever isOnline is true, and otherwise the concatenation, comma
\* separated and in the order venue, address line 1, address line 2, postal
\* code, city, country, of the stripped fragments that are not empty.
C9_FamilyAOnlineAndLocation ==
    FamilyAReturned =>
      /\ out.isOnline = PyBool((~FlagSet("is_on_site")) \/ FlagSet("is_webinar"))
      /\ out.isOnline = PyBool(TRUE) => out.location = PyStr(<<"En", " ", "ligne">>)
      /\ out.isOnline = PyBool(FALSE) => out.location = PyStr(ExpectedAddress)

\* C9 witness: an on-site record that is no webinar, whose address has empty
\* and padded fragments, normalized by multi_schools.py to the joined address.
C9_Witness ==
    /\ pc = "normalize_api_v2_hal" /\ out # Raised
    /\ FlagSet("is_on_site") /\ ~FlagSet("is_webinar")
    /\ Fragment("address_2") = <<>> /\ Fragment("venue") = <<"Campus">>
    /\ out.location = PyStr(<<"Campus", ",", " ", "1", " ", "Rue", " ", "X", ",", " ",
                              "7", "5", "0", "0", "8", ",", " ", "Paris", ",", " ", "FR">>)

LocationsIsObject == "locations" \in DOMAIN raw.d /\ IsDict(raw.d["locations"])

FamilyBReturned == pc = "normalize_arts_json" /\ out # Raised

\* C10 as stated: isOnline is true if and only if location is the marker.
C10_OnlineIffMarker ==
    FamilyBReturned =>
      (out.isOnline = PyBool(TRUE) <=> out.location = PyStr(<<"En", " ", "ligne">>))

\* C10 amended: when locations is an object, isOnline is false, location is
\* the object's address stripped (empty when it has none) and city is derived
\* from that address ("12 Rue X, 75008 Paris, France" gives "Paris"); when
\* locations is absent, null or no object, isOnline is true, location is the
\* marker "En ligne" and city is absent.  isOnline true implies the marker.
C10_FamilyBLocation ==
    FamilyBReturned =>
      /\ LocationsIsObject =>
            /\ out.isOnline = PyBool(FALSE)
            /\ out.location =
                  IF "address" \in DOMAIN raw.d["locations"].d
                    THEN PyStr(Strip(raw.d["locations"].d["address"].s))
                    ELSE EmptyStr
            /\ out.city = _city_from_address(out.location.s)
            /\ out.location = PyStr(AddrParis) => out.city = Tok("Paris")
      /\ ~LocationsIsObject =>
            /\ out.isOnline = PyBool(TRUE)
            /\ out.location = PyStr(<<"En", " ", "ligne">>)
            /\ out.city = PyNone
      /\ out.isOnline = PyBool(TRUE) => out.location = PyStr(<<"En", " ", "ligne">>)

\* C10 witness: a record with an address object, normalized to a physical
\* location with the city taken from the address.
C10_Witness ==
    /\ FamilyBReturned /\ LocationsIsObject
    /\ out.isOnline = PyBool(FALSE)
    /\ out.location = PyStr(AddrParis)
    /\ out.city = Tok("Paris")

\* n > 10^11, n in limbs of 10^6
AboveThreshold(n) == n[1] > 100000 \/ (n[1] = 100000 /\ n[2] > 0)

\* 1000 * n, in limbs
Times1000(n) == <<n[1] * 1000 + (n[2] \div 1000), (n[2] % 1000) * 1000>>

\* the text of the instant ms milliseconds after the epoch, None beyond the
\* last representable instant, 9223372036854 ms
InstantOf(ms) ==
    IF ms[1] > 9223372 \/ (ms[1] = 9223372 /\ ms[2] > 36854) THEN PyNone
    ELSE IsoStr(ms[1], ms[2])

\* C11: to_iso reads a number n, and a digit string denoting n (blanks around
\* it and leading zeros allowed), as epoch milliseconds when n > 10^11 and as
\* epoch seconds otherwise, 10^11 itself included; so a seconds value and a
\* thousand times it, when that is above the threshold, give the same result.
C11_EpochUnitThreshold ==
    pc = "to_iso" =>
      \A n \in EpochValues :
         raw \in {PyInt(n[1], n[2]), PyStr(DigitText(n)),
                  PyStr(<<" ", "0">> \o DigitText(n) \o <<" ">>)} =>
            /\ out = IF AboveThreshold(n) THEN InstantOf(n) ELSE InstantOf(Times1000(n))
            /\ ~AboveThreshold(n) /\ AboveThreshold(Times1000(n)) =>
                  out = to_iso(PyInt(Times1000(n)[1], Times1000(n)[2]))

\* C11 witness: the digit string of 10^11 itself was coerced as seconds, which
\* is beyond the datetime range, not as the milliseconds instant.
C11_Witness ==
    /\ pc = "to_iso"
    /\ raw = PyStr(<<"1", "0", "0", "0", "0", "0", "0", "0", "0", "0", "0", "0">>)
    /\ out = PyNone

\* C12: to_iso raises nothing and its result is a UTC timestamp text or None,
\* whatever the input.
C12_TimestampOrAbsent ==
    pc = "to_iso" => out # Raised /\ (out = PyNone \/ "iso" \in DOMAIN out)

KnownTypes == {"api_v2_hal", "arts_json"}

\* C13: a source whose type is not a known one is skipped: no request is
\* issued for it, it adds no record and is not counted as failed, taking it
\* leaves the collected records as they were, and the for loop goes on.
C13_UnknownTypeSkipped ==
    /\ [](prog = "multi" /\ i > 0 /\ sites[i].type \notin KnownTypes =>
             /\ requests = <<>> /\ served = <<>>
             /\ i \notin failed
             /\ RowsOfSite(all_rows, i) = <<>>
             /\ pc \in {"for", "done"})
    /\ [][prog = "multi" /\ i' = i + 1 /\ sites[i'].type \notin KnownTypes =>
             all_rows' = all_rows /\ pc' = "for" /\ failed' = failed]_vars

\* C13 witness: the first source gave records, the second has an unknown type
\* and was skipped with those records still collected.
C13_Witness ==
    /\ prog = "multi" /\ pc = "for" /\ i = 2
    /\ sites[1].type = "api_v2_hal" /\ sites[2].type = "rss"
    /\ Len(all_rows) = 5 /\ requests = <<>>

\* C14: the normalizers of multi_schools.py return an Event and raise nothing
\* for every raw item, whatever the types of its fields.
C14_NormalizersNeverRaise ==
    pc \in {"normalize_api_v2_hal", "normalize_arts_json"} => out # Raised

\* C15: in the query-paginated adapter a decoded response that is neither an
\* envelope with the items field nor a bare array, an envelope without
\* "events" included, counts as an empty page: it ends the loop, nothing is
\* raised, and the result is what the pages before it gave.
C15_ArtsOtherShapeIsEmptyPage ==
    AtSite("arts_json") =>
      \A j \in 1..Len(served) :
         served[j].status = 200 /\ served[j].shape \in {"noitems", "text", "empty"} =>
            /\ j = Len(served)
            /\ pc # "arts"
            /\ i \notin failed
            /\ Returned = PageItems(SubSeq(served, 1, j - 1))

\* C16: fetch_all_events drops a browser-scraped event only when an event
\* of the same school with the same title and start is already collected.
C16_DropOnlySameSchool ==
    [][pc = "dedup" /\ scraped # <<>> /\ all_events' = all_events =>
          \E k \in 1..Len(all_events) :
             /\ all_events[k].school = Head(scraped).school
             /\ all_events[k].title = Head(scraped).title
             /\ all_events[k].start = Head(scraped).start]_vars

\* the position in the configuration of the source a row comes from
SiteOf(row) == CHOOSE k \in 1..Len(sites) : sites[k].school = row.school

\* C17: the pipeline is sequential.  Sources are taken one by one in
\* configuration order, and the next one only once main is back in its for
\* loop, the previous source fetched and normalized; every page request is
\* issued inside the adapter call of the current source; the collection is
\* only appended to, and its rows stand in source order, none from a source
\* not yet begun.
C17_Sequential ==
    /\ [][i' = i \/ (i' = i + 1 /\ pc = "for")]_vars
    /\ [][requests' # requests /\ requests' # <<>> =>
             /\ pc \in {"hal", "arts"} /\ i' = i
             /\ requests'[Len(requests')].site = i
             /\ SubSeq(requests', 1, Len(requests)) = requests]_vars
    /\ [][IsPrefix(all_rows, all_rows') /\ (all_rows' # all_rows => i' = i)]_vars
    /\ [](\A a \in 1..(Len(all_rows) - 1) : SiteOf(all_rows[a]) <= SiteOf(all_rows[a + 1]))
    /\ [](\A a \in 1..Len(all_rows) : SiteOf(all_rows[a]) <= i)

\* C17 witness: the second source has issued its requests and been
\* normalized after the first, and both have rows in the collection.
C17_Witness ==
    /\ prog = "multi" /\ pc = "for" /\ i = 2 /\ failed = {}
    /\ Len(requests) = 2
    /\ RowsOfSite(all_rows, 1) # <<>> /\ RowsOfSite(all_rows, 2) # <<>>
    /\ all_rows = RowsOfSite(all_rows, 1) \o RowsOfSite(all_rows, 2)

=============================================================================
